---- MODULE Spec2Model ----
(***************************************************************************)
(* A model of detection_adt/detection.py: the BoundingBox geometry and     *)
(* matcher, the Detection dataset (frame-grouped labels / predictions, the *)
(* insertion operations and metrics) and the BoundingBoxArray disjoint-box *)
(* generator.                                                              *)
(*                                                                         *)
(* Numbers.  Coordinates are integers (the float() of an integer argument).*)
(* Confidences and the two thresholds of metrics()/matches() are given in  *)
(* hundredths (50 stands for 0.5), so  iou >= threshold  is the exact      *)
(* comparison  intersection * 100 >= threshold * union.  Precision, recall *)
(* and f-score are exact fractions <<numerator, denominator>> in lowest    *)
(* terms; floating-point rounding is not modelled.                         *)
(*                                                                         *)
(* Python values that reach the code as arguments are tagged records       *)
(* (field t is the Python type), so that the dispatch on type and on       *)
(* argument count is the dispatch the code makes.                          *)
(***************************************************************************)
EXTENDS Integers, Sequences, FiniteSets, TLC

VARIABLES
    labels,          \* Detection.labels : None or dict frame_id -> list of BoundingBox
    predictions,     \* Detection.predictions : None or dict frame_id -> list of BoundingBox
    call,            \* the last call made on the Detection (operation and arguments)
    ret,             \* how that call ended: its return value or the exception it raised
    nIns,            \* number of add_label / add_prediction calls made so far
    self_bb,         \* BoundingBox.matches : the subject rectangle (self)
    obb_iterable,    \* BoundingBox.matches : the candidates
    threshold,       \* BoundingBox.matches : the IoU threshold, in hundredths
    list_to_ret,     \* BoundingBox.matches : how the call ended
    bba_list,        \* BoundingBoxArray.list : the rectangles the array is built from
    width,           \* BoundingBoxArray.width
    height,          \* BoundingBoxArray.height
    normalized,      \* BoundingBoxArray.normalized
    array,           \* BoundingBoxArray.array : cell [y, x] is 0 (empty), 1 (input) or 2 (added)
    num_boxes,       \* add_disjoint_boxes : the number of boxes asked for
    min_size,        \* add_disjoint_boxes : (min_width, min_height)
    max_tries,       \* add_disjoint_boxes : tries, the retry budget of each box
    box_index,       \* add_disjoint_boxes : the loop variable i
    added,           \* add_disjoint_boxes : the result list
    res,             \* add_disjoint_boxes : what the placement of box i returned
    pc,              \* the position of the generator in its code
    tries,           \* _add_disjoint_bounding_box : the tries left
    decay,           \* _add_disjoint_bounding_box : the decay counter
    draw,            \* _add_disjoint_bounding_box : the last random.randint(0,1000)
    tlx, tly,        \* _add_disjoint_bounding_box : the start cell
    cur_x, cur_y,    \* _add_disjoint_bounding_box : the corner the rectangle has grown to
    cur_width, cur_height

vars == << labels, predictions, call, ret, nIns,
           self_bb, obb_iterable, threshold, list_to_ret,
           bba_list, width, height, normalized, array,
           num_boxes, min_size, max_tries, box_index, added, res,
           pc, tries, decay, draw, tlx, tly, cur_x, cur_y, cur_width, cur_height >>

detVars == << labels, predictions, call, ret, nIns >>
matchVars == << self_bb, obb_iterable, threshold, list_to_ret >>
gridVars == << bba_list, width, height, normalized, array >>
callVars == << num_boxes, min_size, max_tries >>
boxVars == << tries, decay, draw, tlx, tly, cur_x, cur_y, cur_width, cur_height >>
genVars == << bba_list, width, height, normalized, array,
              num_boxes, min_size, max_tries, box_index, added, res,
              pc, tries, decay, draw, tlx, tly, cur_x, cur_y, cur_width, cur_height >>

-----------------------------------------------------------------------------
(* Python values *)

NoneV == [t |-> "None"]
Num(n) == [t |-> "num", n |-> n]
Str(s) == [t |-> "str", s |-> s]
Tuple(items) == [t |-> "tuple", items |-> items]
List(items) == [t |-> "list", items |-> items]
Dict(d) == [t |-> "dict", d |-> d]
Obj(bb) == [t |-> "BoundingBox", bb |-> bb]
FalseV == [t |-> "bool", b |-> FALSE]
\* the pair of corners (tlx,tly),(brx,bry)
Corners(x1, y1, x2, y2) == [t |-> "tuple", tl |-> << x1, y1 >>, br |-> << x2, y2 >>]

Return(v) == [kind |-> "return", value |-> v]
Raise(e) == [kind |-> "raise", exc |-> e]

\* float(x) succeeds on a number; on a tuple, None or an object it raises
Floatable(v) == v.t = "num"

\* [float(x) for x in p] unpacked into two names: p is a pair of numbers
IsPoint(p) == /\ p.t = "tuple"
              /\ Len(p.items) = 2
              /\ \A k \in 1..2 : Floatable(p.items[k])

-----------------------------------------------------------------------------
(* class BoundingBox *)

\* BoundingBox.__init__ : the object, or the exception of the two unpackings
BoundingBox(frame_id, object_label, top_left, bottom_right, confidence) ==
    IF IsPoint(top_left) /\ IsPoint(bottom_right)
    THEN Return([frame_id |-> frame_id,
                 label |-> object_label,
                 top_left |-> top_left,
                 tlx |-> top_left.items[1].n,
                 tly |-> top_left.items[2].n,
                 bottom_right |-> bottom_right,
                 brx |-> bottom_right.items[1].n,
                 bry |-> bottom_right.items[2].n,
                 width |-> bottom_right.items[1].n - top_left.items[1].n,
                 height |-> bottom_right.items[2].n - top_left.items[2].n,
                 confidence |-> confidence])
    ELSE Raise("TypeError")

Max(a, b) == IF a >= b THEN a ELSE b
Min(a, b) == IF a <= b THEN a ELSE b

_overlap(self, obb) ==
    IF self.tlx > obb.brx \/ self.brx < obb.tlx THEN FALSE
    ELSE IF self.tly > obb.bry \/ self.bry < obb.tly THEN FALSE
    ELSE TRUE

\* the label is not compared
related_to_mut(self, obb) == _overlap(self, obb)

related_to(self, obb) == self.label = obb.label /\ _overlap(self, obb)

_intersection(self, obb) ==
    LET rightest_left == Max(self.tlx, obb.tlx)
        leftest_right == Min(self.brx, obb.brx)
        bottomest_top == Max(self.tly, obb.tly)
        toppest_bottom == Min(self.bry, obb.bry)
    IN  IF leftest_right < rightest_left THEN 0
        ELSE IF bottomest_top > toppest_bottom THEN 0
        ELSE (leftest_right - rightest_left) * (toppest_bottom - bottomest_top)

_union(self, obb) ==
    LET total_area == self.width * self.height + obb.width * obb.height
    IN  total_area - _intersection(self, obb)

\* BoundingBox.iou : the quotient as a fraction, or the division error
iou(self, obb) ==
    IF _union(self, obb) = 0 THEN Raise("ZeroDivisionError")
    ELSE Return([num |-> _intersection(self, obb), den |-> _union(self, obb)])

\* q >= thr for a fraction q and a threshold in hundredths
FracGeq(q, thr) ==
    IF q.den > 0 THEN q.num * 100 >= thr * q.den
    ELSE q.num * 100 <= thr * q.den

\* The loop of BoundingBox.matches from candidate i on.  acc.list is
\* list_to_ret, acc.iou_calls the candidates iou() has been called on;
\* matchesRelated is the branch of a related candidate, q what iou() gave.
RECURSIVE matchesLoop(_, _, _, _, _)
RECURSIVE matchesRelated(_, _, _, _, _, _)
matchesRelated(self, obbs, thr, i, acc, q) ==
    IF q.kind = "raise"
    THEN [kind |-> "raise", exc |-> q.exc, iou_calls |-> Append(acc.iou_calls, i)]
    ELSE matchesLoop(self, obbs, thr, i + 1,
                     [list |-> Append(acc.list, FracGeq(q.value, thr)),
                      iou_calls |-> Append(acc.iou_calls, i)])

matchesLoop(self, obbs, thr, i, acc) ==
    IF i > Len(obbs) THEN [kind |-> "return", value |-> acc.list, iou_calls |-> acc.iou_calls]
    ELSE IF related_to(self, obbs[i])
         THEN matchesRelated(self, obbs, thr, i, acc, iou(self, obbs[i]))
         ELSE matchesLoop(self, obbs, thr, i + 1,
                          [list |-> Append(acc.list, FALSE), iou_calls |-> acc.iou_calls])

matches(self, obbs, thr) ==
    matchesLoop(self, obbs, thr, 1, [list |-> << >>, iou_calls |-> << >>])

-----------------------------------------------------------------------------
(* class Detection *)

\* the rectangle is put in front of the list of its frame
DictAppend_mut(d, bb) ==
    IF bb.frame_id \in DOMAIN d
    THEN [d EXCEPT ![bb.frame_id] = << bb >> \o @]
    ELSE [f \in (DOMAIN d) \cup {bb.frame_id} |->
             IF f = bb.frame_id THEN << bb >> ELSE d[f]]

\* dict[frame_id].append(bb), creating the list of a frame seen for the first time
DictAppend(d, bb) ==
    IF bb.frame_id \in DOMAIN d
    THEN [d EXCEPT ![bb.frame_id] = Append(@, bb)]
    ELSE [f \in (DOMAIN d) \cup {bb.frame_id} |->
             IF f = bb.frame_id THEN << bb >> ELSE d[f]]

\* The loop of Detection._handle_new_bounding_boxes from item i on
RECURSIVE handleNewLoop(_, _, _)
handleNewLoop(items, i, dict_to_ret) ==
    IF i > Len(items) THEN dict_to_ret
    ELSE IF items[i].t = "BoundingBox"
         THEN handleNewLoop(items, i + 1, DictAppend(dict_to_ret, items[i].bb))
         ELSE handleNewLoop(items, i + 1, dict_to_ret)    \* pass # TODO

_handle_new_bounding_boxes(bb_iter) == Dict(handleNewLoop(bb_iter.items, 1, << >>))

\* One of the two branches of Detection.__init__
InitCollection(arg) ==
    IF arg # NoneV THEN _handle_new_bounding_boxes(arg) ELSE NoneV

\* an unsupported argument count falls through like the one-argument branch
_handle_bb_args_mut(args) ==
    IF Len(args) = 1
    THEN IF args[1].t = "BoundingBox" THEN Return(args[1]) ELSE Return(NoneV)
    ELSE IF Len(args) = 4
    THEN LET r == BoundingBox(args[1], args[2], args[3], args[4], NoneV)
         IN  IF r.kind = "raise" THEN r ELSE Return(Obj(r.value))
    ELSE IF Len(args) = 5
    THEN LET r == BoundingBox(args[1], args[2], args[3], args[4], args[5])
         IN  IF r.kind = "raise" THEN r ELSE Return(Obj(r.value))
    ELSE IF Len(args) = 6
    THEN LET r == BoundingBox(args[1], args[2], Tuple(<< args[3], args[4] >>),
                              Tuple(<< args[5], args[6] >>), NoneV)
         IN  IF r.kind = "raise" THEN r ELSE Return(Obj(r.value))
    ELSE IF Len(args) = 7
    THEN LET r == BoundingBox(args[1], args[2], Tuple(<< args[3], args[4] >>),
                              Tuple(<< args[5], args[6] >>), args[7])
         IN  IF r.kind = "raise" THEN r ELSE Return(Obj(r.value))
    ELSE Return(NoneV)

\* Detection._handle_bb_args : a BoundingBox, None (the one-argument branch
\* falls through when the argument is no BoundingBox) or an exception
_handle_bb_args(args) ==
    IF Len(args) = 1
    THEN IF args[1].t = "BoundingBox" THEN Return(args[1]) ELSE Return(NoneV)
    ELSE IF Len(args) = 4
    THEN LET r == BoundingBox(args[1], args[2], args[3], args[4], NoneV)
         IN  IF r.kind = "raise" THEN r ELSE Return(Obj(r.value))
    ELSE IF Len(args) = 5
    THEN LET r == BoundingBox(args[1], args[2], args[3], args[4], args[5])
         IN  IF r.kind = "raise" THEN r ELSE Return(Obj(r.value))
    ELSE IF Len(args) = 6
    THEN LET r == BoundingBox(args[1], args[2], Tuple(<< args[3], args[4] >>),
                              Tuple(<< args[5], args[6] >>), NoneV)
         IN  IF r.kind = "raise" THEN r ELSE Return(Obj(r.value))
    ELSE IF Len(args) = 7
    THEN LET r == BoundingBox(args[1], args[2], Tuple(<< args[3], args[4] >>),
                              Tuple(<< args[5], args[6] >>), args[7])
         IN  IF r.kind = "raise" THEN r ELSE Return(Obj(r.value))
    ELSE Raise("RuntimeError")

\* Detection._add_bounding_box : the updated dict, or the exception
_add_bounding_box(bb_args, bb_dict) ==
    LET bb == _handle_bb_args(bb_args)
    IN  IF bb.kind = "raise" THEN bb
        ELSE IF bb.value = NoneV THEN Raise("AttributeError")    \* None.frame_id
        ELSE Return(DictAppend(bb_dict, bb.value.bb))

\* the except clause does not reset the collection
AddTo_mut(coll, args) ==
    LET d == IF coll = NoneV THEN << >> ELSE coll.d
        r == _add_bounding_box(args, d)
    IN  IF r.kind = "raise"
        THEN [coll |-> IF coll = NoneV THEN Dict(<< >>) ELSE coll, ret |-> r]
        ELSE [coll |-> Dict(r.value), ret |-> Return(NoneV)]

\* The try/except of add_label and add_prediction: the new value of the
\* collection and the way the call ends
AddTo(coll, args) ==
    LET d == IF coll = NoneV THEN << >> ELSE coll.d
        r == _add_bounding_box(args, d)
    IN  IF r.kind = "raise"
        THEN [coll |-> NoneV, ret |-> r]
        ELSE [coll |-> Dict(r.value), ret |-> Return(NoneV)]

-----------------------------------------------------------------------------
(* Detection.metrics *)

RECURSIVE Gcd(_, _)
Gcd(a, b) == IF b = 0 THEN a ELSE Gcd(b, a % b)

\* the fraction n/d in lowest terms (n >= 0, d > 0)
Frac(n, d) == << n \div Gcd(n, d), d \div Gcd(n, d) >>

\* f_neg = [f_n or matches[i] for i,f_n in enumerate(f_neg)]
OrInto(f_neg, m) == [k \in 1..Len(f_neg) |-> f_neg[k] \/ m[k]]

\* a prediction with no confidence always passes the filter
passesConfidence_mut(pred, confidence_threshold) ==
    pred.confidence = NoneV \/ pred.confidence.n > confidence_threshold

\* the test of line 364: pred.confidence == None or pred.confidence >= confidence_threshold
passesConfidence(pred, confidence_threshold) ==
    pred.confidence = NoneV \/ pred.confidence.n >= confidence_threshold

\* True in matches
TrueIn(m) == \E j \in 1..Len(m) : m[j]

\* The loop over preds of one frame from prediction k on; predMatched is the
\* branch of a prediction that passes the filter, m what matches() gave.
RECURSIVE predLoop(_, _, _, _, _, _)
RECURSIVE predMatched(_, _, _, _, _, _, _)
predMatched(preds, lbls, confidence_threshold, iou_threshold, k, acc, m) ==
    IF m.kind = "raise" THEN Raise(m.exc)
    ELSE predLoop(preds, lbls, confidence_threshold, iou_threshold, k + 1,
                  [t_pos |-> Append(acc.t_pos, TrueIn(m.value)),
                   f_neg |-> OrInto(acc.f_neg, m.value)])

predLoop(preds, lbls, confidence_threshold, iou_threshold, k, acc) ==
    IF k > Len(preds) THEN Return(acc)
    ELSE IF passesConfidence(preds[k], confidence_threshold)
         THEN predMatched(preds, lbls, confidence_threshold, iou_threshold, k, acc,
                          matches(preds[k], lbls, iou_threshold))
         ELSE predLoop(preds, lbls, confidence_threshold, iou_threshold, k + 1, acc)

CountOf(seq, b) == Cardinality({k \in 1..Len(seq) : seq[k] = b})

\* lines 370-375: what the f_neg and t_pos of a frame add to the counts
countFrame(r) ==
    IF r.kind = "raise" THEN r
    ELSE Return([true_pos |-> CountOf(r.value.t_pos, TRUE),
                 false_pos |-> CountOf(r.value.t_pos, FALSE),
                 false_neg |-> CountOf(r.value.f_neg, FALSE)])

\* a frame without predictions adds no false negatives
FrameCounts_mut(lab, pred, frame, confidence_threshold, iou_threshold) ==
    IF frame \notin DOMAIN pred
    THEN Return([true_pos |-> 0, false_pos |-> 0, false_neg |-> 0])
    ELSE countFrame(predLoop(pred[frame], lab[frame], confidence_threshold, iou_threshold, 1,
                             [t_pos |-> << >>,
                              f_neg |-> [k \in 1..Len(lab[frame]) |-> FALSE]]))

\* The body of "for frame in self.labels": the counts the frame adds
FrameCounts(lab, pred, frame, confidence_threshold, iou_threshold) ==
    IF frame \notin DOMAIN pred
    THEN Return([true_pos |-> 0, false_pos |-> 0, false_neg |-> Len(lab[frame])])
    ELSE countFrame(predLoop(pred[frame], lab[frame], confidence_threshold, iou_threshold, 1,
                             [t_pos |-> << >>,
                              f_neg |-> [k \in 1..Len(lab[frame]) |-> FALSE]]))

\* The loop over the frames of self.labels that are still to visit; frameAdd
\* adds the counts c of the frame just visited.
RECURSIVE frameLoop(_, _, _, _, _, _)
RECURSIVE frameAdd(_, _, _, _, _, _, _)
frameAdd(lab, pred, todo, confidence_threshold, iou_threshold, acc, c) ==
    IF c.kind = "raise" THEN c
    ELSE frameLoop(lab, pred, todo, confidence_threshold, iou_threshold,
                   [true_pos |-> acc.true_pos + c.value.true_pos,
                    false_pos |-> acc.false_pos + c.value.false_pos,
                    false_neg |-> acc.false_neg + c.value.false_neg])

frameVisit(lab, pred, todo, confidence_threshold, iou_threshold, acc, frame) ==
    frameAdd(lab, pred, todo \ {frame}, confidence_threshold, iou_threshold, acc,
             FrameCounts(lab, pred, frame, confidence_threshold, iou_threshold))

frameLoop(lab, pred, todo, confidence_threshold, iou_threshold, acc) ==
    IF todo = {} THEN Return(acc)
    ELSE frameVisit(lab, pred, todo, confidence_threshold, iou_threshold, acc,
                    CHOOSE f \in todo : TRUE)

\* lines 382-384: fscore from precision and recall, and the return
\* 2 * ((p * r) / (p + r)), p = precision, r = recall; the division raises
\* when p + r is 0
withScores(true_pos, false_pos, false_neg, precision, recall) ==
    IF precision[1] * recall[2] + recall[1] * precision[2] = 0
    THEN Raise("ZeroDivisionError: metrics")
    ELSE Return([precision |-> precision, recall |-> recall,
                 fscore |-> Frac(2 * precision[1] * recall[1],
                                 precision[1] * recall[2] + recall[1] * precision[2]),
                 true_pos |-> true_pos, false_pos |-> false_pos, false_neg |-> false_neg])

\* lines 380-384: the divisions; each raises when its denominator is 0
divisions(true_pos, false_pos, false_neg) ==
    IF true_pos + false_pos = 0 \/ true_pos + false_neg = 0
    THEN Raise("ZeroDivisionError: metrics")
    ELSE withScores(true_pos, false_pos, false_neg,
                    Frac(true_pos, true_pos + false_pos),
                    Frac(true_pos, true_pos + false_neg))

\* the case of no true positive is not set apart
scores_mut(true_pos, false_pos, false_neg) ==
    divisions(true_pos, false_pos, false_neg)

\* lines 377-384: the triple from the counts
scores(true_pos, false_pos, false_neg) ==
    IF true_pos = 0
    THEN Return([precision |-> << 0, 1 >>, recall |-> << 0, 1 >>, fscore |-> << 0, 1 >>,
                 true_pos |-> true_pos, false_pos |-> false_pos, false_neg |-> false_neg])
    ELSE divisions(true_pos, false_pos, false_neg)

metricsResult(c) ==
    IF c.kind = "raise" THEN c
    ELSE scores(c.value.true_pos, c.value.false_pos, c.value.false_neg)

\* every frame of the predictions that has no labels starts with a false positive
metricsBody_mut(lab, pred, confidence_threshold, iou_threshold) ==
    metricsResult(frameLoop(lab, pred, DOMAIN lab, confidence_threshold, iou_threshold,
                            [true_pos |-> 0,
                             false_pos |-> Cardinality(DOMAIN pred \ DOMAIN lab),
                             false_neg |-> 0]))

\* Detection.metrics from "true_pos = 0" on, for two collections that are set
metricsBody(lab, pred, confidence_threshold, iou_threshold) ==
    metricsResult(frameLoop(lab, pred, DOMAIN lab, confidence_threshold, iou_threshold,
                            [true_pos |-> 0, false_pos |-> 0, false_neg |-> 0]))

\* missing predictions default to an empty collection
metrics_mut(lab, pred, confidence_threshold, iou_threshold) ==
    IF lab = NoneV THEN Raise("RuntimeError: no labels")
    ELSE metricsBody(lab.d, IF pred = NoneV THEN << >> ELSE pred.d,
                     confidence_threshold, iou_threshold)

\* Detection.metrics : the triple (with the final counts), or the exception
metrics(lab, pred, confidence_threshold, iou_threshold) ==
    IF lab = NoneV THEN Raise("RuntimeError: no labels")
    ELSE IF pred = NoneV THEN Raise("RuntimeError: no predictions")
    ELSE metricsBody(lab.d, pred.d, confidence_threshold, iou_threshold)

-----------------------------------------------------------------------------
(* Detection.load_labels_from_annot_dict / Detection.labels_to_annot_dict   *)
(* An annotation dict maps a frame to a dict label -> list of (x, y, w, h); *)
(* the inner dict is the sequence of its (label, boxes) items in insertion  *)
(* order, which is the order Python iterates it in.                         *)

\* lines 405-415: the loop over annot_dict[frame][label] from box i on
RECURSIVE boxLoop(_, _, _, _, _)
boxLoop(frame, label, boxes, i, list) ==
    IF i > Len(boxes) THEN list
    ELSE boxLoop(frame, label, boxes, i + 1,
                 Append(list, BoundingBox(frame, label,
                                          Tuple(<< Num(boxes[i][1]), Num(boxes[i][2]) >>),
                                          Tuple(<< Num(boxes[i][1] + boxes[i][3]),
                                                   Num(boxes[i][2] + boxes[i][4]) >>),
                                          NoneV).value))

\* lines 404-415: the loop over the labels of a frame from item k on
RECURSIVE labelLoop(_, _, _, _)
labelLoop(frame, items, k, list) ==
    IF k > Len(items) THEN list
    ELSE labelLoop(frame, items, k + 1,
                   boxLoop(frame, items[k].label, items[k].boxes, 1, list))

\* Detection.load_labels_from_annot_dict : internal_dict
load_labels_from_annot_dict(annot_dict) ==
    [frame \in DOMAIN annot_dict |-> labelLoop(frame, annot_dict[frame], 1, << >>)]

\* the position of the label among the items, 0 when it is not there
ItemOf(items, label) ==
    IF \E k \in 1..Len(items) : items[k].label = label
    THEN CHOOSE k \in 1..Len(items) : items[k].label = label
    ELSE 0

\* lines 428-432: annot_dict[frame][bb.label].append(val), the list being
\* created when the label is seen for the first time
AnnotAppend(items, label, val) ==
    IF ItemOf(items, label) = 0
    THEN Append(items, [label |-> label, boxes |-> << val >>])
    ELSE [items EXCEPT ![ItemOf(items, label)].boxes = Append(@, val)]

\* lines 427-432: the loop over self.labels[frame] from rectangle i on
RECURSIVE bbLoop(_, _, _)
bbLoop(bbs, i, items) ==
    IF i > Len(bbs) THEN items
    ELSE bbLoop(bbs, i + 1,
                AnnotAppend(items, bbs[i].label,
                            << bbs[i].tlx, bbs[i].tly,
                               bbs[i].brx - bbs[i].tlx, bbs[i].bry - bbs[i].tly >>))

\* Detection.labels_to_annot_dict : annot_dict, or the exception of
\* iterating over None
labels_to_annot_dict(lab) ==
    IF lab = NoneV THEN Raise("TypeError")
    ELSE Return([frame \in DOMAIN lab.d |-> bbLoop(lab.d[frame], 1, << >>)])

-----------------------------------------------------------------------------
(* The inputs: rectangles, argument lists, thresholds *)

Pt(x, y) == Tuple(<< Num(x), Num(y) >>)

\* BoundingBox(f, l, (x1,y1), (x2,y2)) and the same with a confidence
Box(f, l, x1, y1, x2, y2) ==
    BoundingBox(Num(f), Str(l), Pt(x1, y1), Pt(x2, y2), NoneV).value
BoxC(f, l, x1, y1, x2, y2, c) ==
    BoundingBox(Num(f), Str(l), Pt(x1, y1), Pt(x2, y2), Num(c)).value

\* the rectangles of test_detection.py
true1 == Box(1, "A", 2, 2, 12, 22)
true2 == Box(1, "A", 80, 80, 110, 120)
true3 == Box(1, "A", 20, 20, 30, 30)
pred1 == Box(1, "A", 4, 4, 14, 24)
pred2 == Box(1, "A", 50, 50, 80, 60)
pred3 == Box(1, "A", 80, 80, 110, 120)
pred3B == Box(1, "B", 80, 80, 110, 120)

\* a rectangle of area zero
point2 == Box(2, "A", 1, 1, 1, 1)

ListOf(bbs) == List([k \in 1..Len(bbs) |-> Obj(bbs[k])])

Test1Labels == ListOf(<< true1, true2 >>)
Test2Labels == ListOf(<< true1, true2, true3 >>)
Test1Predictions == ListOf(<< pred1, pred2, pred3 >>)
Test3Predictions == ListOf(<< pred1, pred2, pred3B >>)

\* records in the tuple formats of the __init__ docstring
TupleRecord4 == Tuple(<< Num(2), Str("A"), Pt(0, 0), Pt(2, 2) >>)
TupleRecord5 == Tuple(<< Num(2), Str("A"), Pt(0, 0), Pt(2, 2), Num(90) >>)

\* the (labels, predictions) arguments a Detection is constructed with
CtorArgs ==
    { << NoneV, NoneV >>,
      << List(<< >>), List(<< >>) >>,
      << Test1Labels, Test1Predictions >>,
      << Test2Labels, Test1Predictions >>,
      << Test2Labels, Test3Predictions >>,
      << ListOf(<< true1 >>), NoneV >>,
      << List(<< TupleRecord4, Obj(point2) >>), List(<< TupleRecord5 >>) >>,
      << ListOf(<< Box(2, "A", 0, 0, 2, 2) >>), ListOf(<< BoxC(2, "A", 1, 1, 3, 3, 30) >>) >> }

\* argument lists of add_label / add_prediction in a supported format
GoodArgs ==
    { << Obj(true1) >>,
      << Num(1), Str("A"), Num(4), Num(4), Num(14), Num(24) >>,
      << Num(2), Str("A"), Num(1), Num(1), Num(3), Num(3), Num(30) >>,
      << Num(2), Str("A"), Pt(0, 0), Pt(2, 2) >>,
      << Num(2), Str("A"), Pt(0, 0), Pt(2, 2), Num(50) >>,
      << Obj(point2) >> }

\* argument lists that make the insertion raise
BadArgs ==
    { << >>,
      << Num(1), Str("A") >>,
      << Num(1), Str("A"), Num(0) >>,
      << Num(1), Str("A"), Num(0), Num(0), Num(2), Num(2), Num(50), Num(0) >>,
      << TupleRecord4 >>,
      << Num(1), Str("A"), Num(0), Num(0) >> }

ArgLists == GoodArgs \cup BadArgs

ConfidenceThresholds == {20, 50}
IouThresholds == {50, 60}

MaxInsertions == 2

\* subjects and candidates of matches: overlapping, nested, touching, apart,
\* of another label, and of area zero (a point, a segment)
MatchBoxes ==
    { Box(1, "A", 0, 0, 2, 2),
      Box(1, "B", 0, 0, 2, 2),
      Box(1, "A", 0, 0, 2, 1),
      Box(1, "A", 1, 1, 3, 3),
      Box(1, "A", 2, 2, 4, 4),
      Box(1, "A", 5, 5, 6, 6),
      Box(1, "A", 1, 1, 1, 1),
      Box(1, "A", 9, 9, 9, 9),
      Box(1, "A", 1, 0, 1, 2) }

MatchThresholds == {0, 50, 100}

MaxCandidates == 2

\* the sequences over S of length at most n
SeqsUpTo(S, n) == UNION {[1..k -> S] : k \in 0..n}

\* items of the lists a Detection is constructed with: labels of frames 1
\* and 2; predictions that match a label, match none, lie below the
\* confidence thresholds, or belong to a frame without labels
LabelItems ==
    { Obj(true1), Obj(true2), Obj(Box(2, "A", 0, 0, 2, 2)) }
PredictionItems ==
    { Obj(pred1), Obj(pred2),
      Obj(BoxC(1, "A", 80, 80, 110, 120, 10)),
      Obj(BoxC(3, "A", 0, 0, 2, 2, 90)) }

MaxListLen == 2

\* the (x, y, w, h) boxes of annotation dicts, and the longest list of one label
AnnotBoxes == { << 0, 0, 2, 2 >>, << 1, 1, 1, 1 >> }
MaxAnnotBoxes == 2

AnnotItem(l, boxes) == [label |-> Str(l), boxes |-> boxes]

\* the dicts label -> list of boxes over the labels A and B, in both orders
\* of insertion; B has at most one box
LabelDicts ==
    LET ListsA == SeqsUpTo(AnnotBoxes, MaxAnnotBoxes)
        ListsB == SeqsUpTo(AnnotBoxes, 1)
    IN  { << >> }
        \cup { << AnnotItem("A", a) >> : a \in ListsA }
        \cup { << AnnotItem("B", b) >> : b \in ListsB }
        \cup { << AnnotItem("A", x[1]), AnnotItem("B", x[2]) >> : x \in ListsA \X ListsB }
        \cup { << AnnotItem("B", x[2]), AnnotItem("A", x[1]) >> : x \in ListsA \X ListsB }

\* the annotation dicts: frame 1 with any of the label dicts, frame 2 with one box
AnnotDicts ==
    { << >> }
    \cup { [f \in {Num(1)} |-> ld] : ld \in LabelDicts }
    \cup { [f \in {Num(1), Num(2)} |->
              IF f = Num(1) THEN ld ELSE << AnnotItem("A", << << 0, 0, 2, 2 >> >>) >>] :
           ld \in LabelDicts }

-----------------------------------------------------------------------------
(* The Detection as a state machine *)

MatchIdle ==
    /\ self_bb = NoneV
    /\ obb_iterable = << >>
    /\ threshold = 0
    /\ list_to_ret = NoneV

\* Detection(labels=..., predictions=...)
InitDetection ==
    \E a \in CtorArgs :
        /\ labels = InitCollection(a[1])
        /\ predictions = InitCollection(a[2])
        /\ call = [op |-> "__init__", labels |-> a[1], predictions |-> a[2]]
        /\ ret = Return(NoneV)
        /\ nIns = 0

GeneratorIdle ==
    /\ bba_list = << >>
    /\ width = 0 /\ height = 0 /\ normalized = FALSE
    /\ array = << >>
    /\ num_boxes = 0 /\ min_size = << 0, 0 >> /\ max_tries = 0
    /\ box_index = 0 /\ added = << >> /\ res = NoneV
    /\ pc = "idle"
    /\ tries = 0 /\ decay = 0 /\ draw = 0
    /\ tlx = 0 /\ tly = 0 /\ cur_x = 0 /\ cur_y = 0
    /\ cur_width = 0 /\ cur_height = 0

Init == InitDetection /\ MatchIdle /\ GeneratorIdle

DetectionIdle ==
    /\ labels = NoneV
    /\ predictions = NoneV
    /\ call = [op |-> "none"]
    /\ ret = Return(NoneV)
    /\ nIns = 0

add_label ==
    /\ nIns < MaxInsertions
    /\ \E args \in ArgLists :
          LET r == AddTo(labels, args)
          IN  /\ labels' = r.coll
              /\ ret' = r.ret
              /\ call' = [op |-> "add_label", args |-> args]
    /\ nIns' = nIns + 1
    /\ UNCHANGED predictions
    /\ UNCHANGED matchVars
    /\ UNCHANGED genVars

add_prediction ==
    /\ nIns < MaxInsertions
    /\ \E args \in ArgLists :
          LET r == AddTo(predictions, args)
          IN  /\ predictions' = r.coll
              /\ ret' = r.ret
              /\ call' = [op |-> "add_prediction", args |-> args]
    /\ nIns' = nIns + 1
    /\ UNCHANGED labels
    /\ UNCHANGED matchVars
    /\ UNCHANGED genVars

call_metrics ==
    /\ \E ct \in ConfidenceThresholds, it \in IouThresholds :
          /\ ret' = metrics(labels, predictions, ct, it)
          /\ call' = [op |-> "metrics", confidence_threshold |-> ct, iou_threshold |-> it]
    /\ UNCHANGED << labels, predictions, nIns >>
    /\ UNCHANGED matchVars
    /\ UNCHANGED genVars

Next == add_label \/ add_prediction \/ call_metrics

Spec == Init /\ [][Next]_vars

\* Detection(labels=..., predictions=...) on lists over small catalogs, and
\* metrics on it
InitMetrics ==
    /\ \E l \in SeqsUpTo(LabelItems, MaxListLen), p \in SeqsUpTo(PredictionItems, MaxListLen) :
          /\ labels = InitCollection(List(l))
          /\ predictions = InitCollection(List(p))
          /\ call = [op |-> "__init__", labels |-> List(l), predictions |-> List(p)]
    /\ ret = Return(NoneV)
    /\ nIns = 0
    /\ MatchIdle
    /\ GeneratorIdle

NextMetrics == call_metrics

SpecMetrics == InitMetrics /\ [][NextMetrics]_vars


-----------------------------------------------------------------------------
(* What the claims are stated with *)

\* the rectangles overlap, edges included (section 4.1 of the specification)
Overlaps(a, b) ==
    /\ ~(a.brx < b.tlx \/ a.tlx > b.brx)
    /\ ~(a.bry < b.tly \/ a.tly > b.bry)

Area(a) == (a.brx - a.tlx) * (a.bry - a.tly)

IntersectionArea(a, b) ==
    Max(0, Min(a.brx, b.brx) - Max(a.tlx, b.tlx)) * Max(0, Min(a.bry, b.bry) - Max(a.tly, b.tly))

UnionArea(a, b) == Area(a) + Area(b) - IntersectionArea(a, b)

\* same label, overlap, and an IoU that exists and is at least thr hundredths
IsMatch(a, b, thr) ==
    /\ a.label = b.label
    /\ Overlaps(a, b)
    /\ UnionArea(a, b) > 0
    /\ IntersectionArea(a, b) * 100 >= thr * UnionArea(a, b)

\* the prediction passes the confidence filter
Passes(p, ct) == p.confidence = NoneV \/ p.confidence.n >= ct

\* the length of the longest list of a dict
MaxLenOf(d) ==
    IF DOMAIN d = {} THEN 0
    ELSE CHOOSE n \in {Len(d[f]) : f \in DOMAIN d} : \A g \in DOMAIN d : Len(d[g]) <= n

IsMetricsCall == call.op = "metrics"

\* the predictions of frame f (none when the frame has no predictions)
PredsOf(f) == IF f \in DOMAIN predictions.d THEN predictions.d[f] ELSE << >>

\* positions (frame, index) of the confidence-passing predictions in label frames
PassingPreds(ct) ==
    {x \in (DOMAIN labels.d) \X (1..MaxLenOf(predictions.d)) :
        /\ x[2] <= Len(PredsOf(x[1]))
        /\ Passes(PredsOf(x[1])[x[2]], ct)}

\* positions (frame, index) of all labels
AllLabels ==
    {x \in (DOMAIN labels.d) \X (1..MaxLenOf(labels.d)) : x[2] <= Len(labels.d[x[1]])}

PredHasMatch(x, it) ==
    \E j \in 1..Len(labels.d[x[1]]) : IsMatch(PredsOf(x[1])[x[2]], labels.d[x[1]][j], it)

LabelHasMatch(y, ct, it) ==
    \E x \in PassingPreds(ct) :
        x[1] = y[1] /\ IsMatch(PredsOf(x[1])[x[2]], labels.d[y[1]][y[2]], it)

\* C1: metrics counts one true positive per confidence-passing prediction
\* (in a frame of the labels) that matches some label of its frame, one
\* false positive per such prediction that matches none, one false negative
\* per label matched by no such prediction; with TP > 0 it returns
\* TP/(TP+FP), TP/(TP+FN) and 2pr/(p+r) = 2TP/(2TP+FP+FN); the three test
\* scenarios give (2/3, 1), (2/3, 2/3) and (1/3, 1/3).
C1_MetricsCounts ==
    /\ (IsMetricsCall /\ ret.kind = "return") =>
          LET ct == call.confidence_threshold
              it == call.iou_threshold
              TP == Cardinality({x \in PassingPreds(ct) : PredHasMatch(x, it)})
              FP == Cardinality({x \in PassingPreds(ct) : ~PredHasMatch(x, it)})
              FN == Cardinality({y \in AllLabels : ~LabelHasMatch(y, ct, it)})
              v == ret.value
          IN  /\ v.true_pos = TP
              /\ v.false_pos = FP
              /\ v.false_neg = FN
              /\ TP > 0 =>
                    /\ v.precision[1] * (TP + FP) = v.precision[2] * TP
                    /\ v.recall[1] * (TP + FN) = v.recall[2] * TP
                    /\ v.fscore[1] * (2 * TP + FP + FN) = v.fscore[2] * 2 * TP
    /\ (IsMetricsCall /\ call.confidence_threshold = 50 /\ call.iou_threshold = 50
          /\ predictions = Dict([f \in {Num(1)} |-> << pred1, pred2, pred3 >>])) =>
          /\ labels = Dict([f \in {Num(1)} |-> << true1, true2 >>]) =>
                (ret.kind = "return" /\ ret.value.precision = << 2, 3 >>
                                     /\ ret.value.recall = << 1, 1 >>)
          /\ labels = Dict([f \in {Num(1)} |-> << true1, true2, true3 >>]) =>
                (ret.kind = "return" /\ ret.value.precision = << 2, 3 >>
                                     /\ ret.value.recall = << 2, 3 >>)
    /\ (IsMetricsCall /\ call.confidence_threshold = 50 /\ call.iou_threshold = 50
          /\ predictions = Dict([f \in {Num(1)} |-> << pred1, pred2, pred3B >>])
          /\ labels = Dict([f \in {Num(1)} |-> << true1, true2, true3 >>])) =>
          (ret.kind = "return" /\ ret.value.precision = << 1, 3 >>
                               /\ ret.value.recall = << 1, 3 >>)

\* C1 witness: metrics returned over two label frames with true positives,
\* false positives and false negatives all present
C1_Witness ==
    /\ IsMetricsCall /\ ret.kind = "return"
    /\ Cardinality(DOMAIN labels.d) = 2
    /\ ret.value.true_pos > 0 /\ ret.value.false_pos > 0 /\ ret.value.false_neg > 0


IsMissingCollectionError(r) ==
    r \in {Raise("RuntimeError: no labels"), Raise("RuntimeError: no predictions")}

\* the insertion of these arguments raises inside _add_bounding_box
InsertionFails(args) == _add_bounding_box(args, << >>).kind = "raise"

C6_State ==
    /\ (call.op = "add_label" /\ InsertionFails(call.args)) =>
          (labels = NoneV /\ ret = _add_bounding_box(call.args, << >>))
    /\ (call.op = "add_prediction" /\ InsertionFails(call.args)) =>
          (predictions = NoneV /\ ret = _add_bounding_box(call.args, << >>))
    /\ (IsMetricsCall /\ (labels = NoneV \/ predictions = NoneV)) =>
          IsMissingCollectionError(ret)

C6_Step ==
    /\ (labels = NoneV /\ labels' # NoneV) =>
          (call'.op = "add_label" /\ ret' = Return(NoneV))
    /\ (predictions = NoneV /\ predictions' # NoneV) =>
          (call'.op = "add_prediction" /\ ret' = Return(NoneV))

\* C6: an add_label / add_prediction call that fails leaves its collection
\* None (whatever was inserted before) and ends with the exception raised
\* inside; the collection stays None, and metrics fails with the
\* missing-collection error, until an insertion into it succeeds.
C6_FailedInsertionResets == [](C6_State) /\ [][C6_Step]_vars

\* C6 witness: an add_label call failed after earlier insertions, with the
\* predictions still in place
C6_Witness ==
    /\ call.op = "add_label" /\ ret.kind = "raise"
    /\ labels = NoneV /\ predictions # NoneV
    /\ nIns >= 2

\* C7: metrics called with labels None or predictions None raises the
\* missing-labels / missing-predictions error and returns no triple.
C7_MetricsNeedsBoth ==
    IsMetricsCall =>
        /\ labels = NoneV => ret = Raise("RuntimeError: no labels")
        /\ (labels # NoneV /\ predictions = NoneV) => ret = Raise("RuntimeError: no predictions")

\* C7 witness: metrics was called with labels set and predictions None
C7_Witness == IsMetricsCall /\ labels # NoneV /\ predictions = NoneV

\* a record in one of the supported tuple formats (paired or flat)
IsTupleRecord(r) ==
    \/ Len(r) \in {4, 5} /\ IsPoint(r[3]) /\ IsPoint(r[4])
    \/ Len(r) \in {6, 7} /\ \A k \in 3..6 : r[k].t = "num"

\* the rectangle a tuple record stands for
RectangleOf(r) ==
    IF Len(r) \in {4, 5}
    THEN BoundingBox(r[1], r[2], r[3], r[4], IF Len(r) = 5 THEN r[5] ELSE NoneV).value
    ELSE BoundingBox(r[1], r[2], Tuple(<< r[3], r[4] >>), Tuple(<< r[5], r[6] >>),
                     IF Len(r) = 7 THEN r[7] ELSE NoneV).value

IsPresent(bb, coll) ==
    /\ coll # NoneV
    /\ bb.frame_id \in DOMAIN coll.d
    /\ \E k \in 1..Len(coll.d[bb.frame_id]) : coll.d[bb.frame_id][k] = bb

\* every record of a constructor argument is in the collection built from it
CtorRecordsPresent(arg, coll) ==
    arg # NoneV =>
        \A k \in 1..Len(arg.items) :
            LET item == arg.items[k]
            IN  /\ item.t = "BoundingBox" => IsPresent(item.bb, coll)
                /\ (item.t = "tuple" /\ IsTupleRecord(item.items)) =>
                      IsPresent(RectangleOf(item.items), coll)

\* the record of an insertion call is in the collection
ArgRecordPresent(args, coll) ==
    /\ (Len(args) = 1 /\ args[1].t = "BoundingBox") => IsPresent(args[1].bb, coll)
    /\ IsTupleRecord(args) => IsPresent(RectangleOf(args), coll)

\* C8: every record handed to a Detection (a BoundingBox, a flat tuple or a
\* paired tuple) is, as a rectangle, in the collection of its frame: right
\* after the constructor for the records of its arguments, right after
\* add_label / add_prediction for the record of the call.
C8_RecordsNormalized ==
    /\ call.op = "__init__" =>
          /\ CtorRecordsPresent(call.labels, labels)
          /\ CtorRecordsPresent(call.predictions, predictions)
    /\ call.op = "add_label" => ArgRecordPresent(call.args, labels)
    /\ call.op = "add_prediction" => ArgRecordPresent(call.args, predictions)

IsBelow(p, ct) == p.confidence # NoneV /\ p.confidence.n < ct

\* the predictions without those below the threshold; a frame left without
\* predictions keeps its (empty) list
WithoutBelow(pred, ct) ==
    IF pred = NoneV THEN NoneV
    ELSE Dict([f \in DOMAIN pred.d |-> SelectSeq(pred.d[f], LAMBDA p : ~IsBelow(p, ct))])

\* the same, a frame left without predictions being dropped
WithoutBelowFrames(pred, ct) ==
    IF pred = NoneV THEN NoneV
    ELSE LET kept == WithoutBelow(pred, ct).d
         IN  Dict([f \in {g \in DOMAIN kept : kept[g] # << >>} |-> kept[f]])

Triple(r) ==
    IF r.kind = "raise" THEN r
    ELSE << r.value.precision, r.value.recall, r.value.fscore >>

\* positions (frame, index) of the predictions in label frames that are not
\* below the threshold: confidence absent, or present and >= ct
NotBelowPreds(ct) ==
    {x \in (DOMAIN labels.d) \X (1..MaxLenOf(predictions.d)) :
        /\ x[2] <= Len(PredsOf(x[1]))
        /\ ~IsBelow(PredsOf(x[1])[x[2]], ct)}

\* C10: metrics gives what it gives for the dataset without the predictions
\* whose confidence is present and below confidence_threshold, and every
\* other prediction of a label frame (one without confidence included) is
\* counted, as a true or as a false positive.
C10_BelowThresholdIgnored ==
    IsMetricsCall =>
        LET ct == call.confidence_threshold
            it == call.iou_threshold
        IN  /\ Triple(ret) = Triple(metrics(labels, WithoutBelow(predictions, ct), ct, it))
            /\ Triple(ret) = Triple(metrics(labels, WithoutBelowFrames(predictions, ct), ct, it))
            /\ ret.kind = "return" =>
                   ret.value.true_pos + ret.value.false_pos = Cardinality(NotBelowPreds(ct))

\* C10 witness: metrics returned true positives for a dataset in which a
\* label frame has a prediction below the threshold and one at the threshold
C10_Witness ==
    /\ IsMetricsCall /\ ret.kind = "return" /\ ret.value.true_pos > 0
    /\ \E f \in DOMAIN labels.d \cap DOMAIN predictions.d :
          /\ \E k \in 1..Len(predictions.d[f]) :
                IsBelow(predictions.d[f][k], call.confidence_threshold)
          /\ \E k \in 1..Len(predictions.d[f]) :
                predictions.d[f][k].confidence = Num(call.confidence_threshold)


------------------------------------------------------------------------\* a prediction that passes the filter meets, in its frame, a label of its
\* own label that it overlaps and with which its union is empty: iou divides
\* by zero (section 4.1 of the specification)
SomeZeroUnion(ct) ==
    \E x \in PassingPreds(ct) : \E j \in 1..Len(labels.d[x[1]]) :
        /\ PredsOf(x[1])[x[2]].label = labels.d[x[1]][j].label
        /\ Overlaps(PredsOf(x[1])[x[2]], labels.d[x[1]][j])
        /\ UnionArea(PredsOf(x[1])[x[2]], labels.d[x[1]][j]) = 0

\* C11: with no true positive over the whole dataset metrics returns
\* (0, 0, 0); with one, TP+FP, TP+FN and precision+recall are all positive;
\* so the three divisions of metrics itself never fail: a division error
\* that ends metrics is the one of iou on an empty union.
C11_NoDivisionByZero ==
    (IsMetricsCall /\ labels # NoneV /\ predictions # NoneV) =>
        LET ct == call.confidence_threshold
            it == call.iou_threshold
            TP == Cardinality({x \in PassingPreds(ct) : PredHasMatch(x, it)})
        IN  /\ ret # Raise("ZeroDivisionError: metrics")
            /\ ret.kind = "raise" => (ret = Raise("ZeroDivisionError") /\ SomeZeroUnion(ct))
            /\ (ret.kind = "return" /\ TP = 0) =>
                  /\ ret.value.true_pos = 0
                  /\ ret.value.precision = << 0, 1 >>
                  /\ ret.value.recall = << 0, 1 >>
                  /\ ret.value.fscore = << 0, 1 >>
            /\ (ret.kind = "return" /\ TP > 0) =>
                  /\ ret.value.true_pos + ret.value.false_pos > 0
                  /\ ret.value.true_pos + ret.value.false_neg > 0
                  /\ ret.value.precision[1] > 0 /\ ret.value.precision[2] > 0
                  /\ ret.value.recall[1] > 0 /\ ret.value.recall[2] > 0

\* C11 witness: metrics returned (0, 0, 0) for a dataset with labels and
\* with predictions that pass the filter, none of them matching
C11_Witness ==
    /\ IsMetricsCall /\ ret.kind = "return"
    /\ ret.value.true_pos = 0 /\ ret.value.false_pos > 0 /\ ret.value.false_neg > 0
    /\ ret.value.precision = << 0, 1 >>

\* the orders the items of a list can be put in
PermsOf(seq) ==
    { [i \in 1..Len(seq) |-> seq[p[i]]] : p \in Permutations(1..Len(seq)) }

\* the dicts got from d by reordering the list of each of the frames in todo
RECURSIVE PermDicts(_, _)
PermDicts(d, todo) ==
    IF todo = {} THEN { d }
    ELSE LET f == CHOOSE g \in todo : TRUE
         IN  { [e EXCEPT ![f] = s] : e \in PermDicts(d, todo \ {f}), s \in PermsOf(d[f]) }

\* the list of frame f in a collection (empty when the frame is not there)
FrameList(coll, f) ==
    IF coll = NoneV \/ f \notin DOMAIN coll.d THEN << >> ELSE coll.d[f]

\* the insertion put bb at the end of the list of its frame and left the
\* other frames as they were
AppendedTo(old, new, bb) ==
    /\ new # NoneV
    /\ DOMAIN new.d = (IF old = NoneV THEN {} ELSE DOMAIN old.d) \cup {bb.frame_id}
    /\ new.d[bb.frame_id] = Append(FrameList(old, bb.frame_id), bb)
    /\ \A f \in DOMAIN new.d \ {bb.frame_id} : new.d[f] = old.d[f]

\* the rectangles of the items of a list that belong to frame f, in order
RECURSIVE OfFrame(_, _, _)
OfFrame(items, f, i) ==
    IF i > Len(items) THEN << >>
    ELSE IF items[i].t = "BoundingBox" /\ items[i].bb.frame_id = f
         THEN << items[i].bb >> \o OfFrame(items, f, i + 1)
         ELSE OfFrame(items, f, i + 1)

\* the collection holds the rectangles of the constructor's list, each
\* frame in the order of the list
KeepsOrder(coll, arg) ==
    arg # NoneV =>
        /\ coll # NoneV
        /\ \A k \in 1..Len(arg.items) :
              arg.items[k].t = "BoundingBox" => arg.items[k].bb.frame_id \in DOMAIN coll.d
        /\ \A f \in DOMAIN coll.d : coll.d[f] = OfFrame(arg.items, f, 1)

\* an insertion of args into coll that succeeds appends to the frame's list
InsertsAtEnd(coll, args) ==
    AddTo(coll, args).ret.kind = "return" =>
        AppendedTo(coll, AddTo(coll, args).coll, _handle_bb_args(args).value.bb)

\* C13: the constructor keeps the rectangles of a frame in the order they
\* were given in; an add_label / add_prediction that succeeds puts the
\* rectangle at the end of the list of its frame and moves nothing else;
\* and metrics gives the same result (triple or exception) for every
\* reordering of the labels and of the predictions within their frames.
C13_OrderPreservedAndIrrelevant ==
    /\ call.op = "__init__" =>
          (KeepsOrder(labels, call.labels) /\ KeepsOrder(predictions, call.predictions))
    /\ \A args \in GoodArgs : InsertsAtEnd(labels, args) /\ InsertsAtEnd(predictions, args)
    /\ (IsMetricsCall /\ labels # NoneV /\ predictions # NoneV) =>
          \A l \in PermDicts(labels.d, DOMAIN labels.d) :
              \A p \in PermDicts(predictions.d, DOMAIN predictions.d) :
                  Triple(metrics(Dict(l), Dict(p), call.confidence_threshold,
                                 call.iou_threshold)) = Triple(ret)

\* C13 witness: metrics returned true and false positives for a dataset
\* with a frame of two different labels and two different predictions
C13_Witness ==
    /\ IsMetricsCall /\ ret.kind = "return"
    /\ ret.value.true_pos > 0 /\ ret.value.false_pos > 0
    /\ \E f \in DOMAIN labels.d \cap DOMAIN predictions.d :
          /\ Len(labels.d[f]) = 2 /\ labels.d[f][1] # labels.d[f][2]
          /\ Len(predictions.d[f]) = 2 /\ predictions.d[f][1] # predictions.d[f][2]

\* the argument counts _handle_bb_args has a branch for
SupportedArities == {1, 4, 5, 6, 7}

\* nothing was inserted: the collection is as it was, or is None
NothingInserted(old, new) == new = old \/ new = NoneV

\* C14: add_label / add_prediction called with a number of arguments other
\* than 1, 4, 5, 6 or 7 ends with the RuntimeError of _handle_bb_args,
\* inserts no rectangle and leaves the other collection alone; the error is
\* raised for no supported argument count.
C14_UnsupportedArityFails ==
    [][/\ (call'.op = "add_label" /\ Len(call'.args) \notin SupportedArities) =>
             /\ ret' = Raise("RuntimeError")
             /\ NothingInserted(labels, labels')
             /\ predictions' = predictions
       /\ (call'.op = "add_prediction" /\ Len(call'.args) \notin SupportedArities) =>
             /\ ret' = Raise("RuntimeError")
             /\ NothingInserted(predictions, predictions')
             /\ labels' = labels
       /\ (call'.op \in {"add_label", "add_prediction"} /\ ret' = Raise("RuntimeError")) =>
             Len(call'.args) \notin SupportedArities]_vars

\* C14 witness: add_prediction was called with eight arguments on a
\* Detection that had predictions
C14_Witness ==
    /\ call.op = "add_prediction" /\ Len(call.args) = 8
    /\ ret = Raise("RuntimeError")
    /\ nIns >= 2

\* the list without its item k
WithoutItem(seq, k) == [i \in 1..(Len(seq) - 1) |-> IF i < k THEN seq[i] ELSE seq[i + 1]]

\* the frames of the predictions that have no labels
UnlabelledFrames == DOMAIN predictions.d \ DOMAIN labels.d

\* the predictions without the frames of F
WithoutFrames(F) == Dict([f \in DOMAIN predictions.d \ F |-> predictions.d[f]])

\* the predictions without item k of frame f
WithoutPrediction(f, k) ==
    Dict([predictions.d EXCEPT ![f] = WithoutItem(predictions.d[f], k)])

\* rectangles to add as predictions, in frames 3 and 4
ExtraPredictions ==
    { Box(3, "A", 2, 2, 12, 22), BoxC(3, "A", 80, 80, 110, 120, 90), Box(4, "B", 0, 0, 2, 2) }

\* C15: metrics gives the same result when predictions of frames without
\* labels are removed (whole frames, or single predictions) and when a
\* prediction is added to a frame without labels.
C15_UnlabelledFramesIgnored ==
    (IsMetricsCall /\ labels # NoneV /\ predictions # NoneV) =>
        LET ct == call.confidence_threshold
            it == call.iou_threshold
        IN  /\ \A F \in SUBSET UnlabelledFrames :
                  Triple(metrics(labels, WithoutFrames(F), ct, it)) = Triple(ret)
            /\ \A f \in UnlabelledFrames : \A k \in 1..Len(predictions.d[f]) :
                  Triple(metrics(labels, WithoutPrediction(f, k), ct, it)) = Triple(ret)
            /\ \A bb \in ExtraPredictions :
                  bb.frame_id \notin DOMAIN labels.d =>
                      Triple(metrics(labels, Dict(DictAppend(predictions.d, bb)), ct, it))
                          = Triple(ret)

\* C15 witness: metrics returned true positives for a dataset whose
\* predictions have a frame that has no labels
C15_Witness ==
    /\ IsMetricsCall /\ ret.kind = "return" /\ ret.value.true_pos > 0
    /\ UnlabelledFrames # {}

-----------------------------------------------------------------------------
(* The annotation-dict conversion on a Detection() *)

InitAnnot == DetectionIdle /\ MatchIdle /\ GeneratorIdle

call_load_labels_from_annot_dict ==
    /\ \E d \in AnnotDicts :
          /\ labels' = Dict(load_labels_from_annot_dict(d))
          /\ call' = [op |-> "load_labels_from_annot_dict", annot_dict |-> d]
    /\ ret' = Return(NoneV)
    /\ UNCHANGED << predictions, nIns >>
    /\ UNCHANGED matchVars
    /\ UNCHANGED genVars

call_labels_to_annot_dict ==
    /\ ret' = labels_to_annot_dict(labels)
    /\ call' = [op |-> "labels_to_annot_dict"]
    /\ UNCHANGED << labels, predictions, nIns >>
    /\ UNCHANGED matchVars
    /\ UNCHANGED genVars

NextAnnot == call_load_labels_from_annot_dict \/ call_labels_to_annot_dict

SpecAnnot == InitAnnot /\ [][NextAnnot]_vars

\* the dict label -> list of boxes, the order of its items left out
AsDict(items) ==
    [l \in {items[k].label : k \in 1..Len(items)} |-> items[ItemOf(items, l)].boxes]

\* equality of two annotation dicts: the same frames, the same labels in
\* each frame and the same list of boxes for each label
SameAnnot(a, b) ==
    /\ DOMAIN a = DOMAIN b
    /\ \A f \in DOMAIN a : AsDict(a[f]) = AsDict(b[f])

\* C12: labels_to_annot_dict() called right after
\* load_labels_from_annot_dict(d) returns a dict equal to d.
C12_RoundTrip ==
    [][(call.op = "load_labels_from_annot_dict" /\ call'.op = "labels_to_annot_dict") =>
          (ret'.kind = "return" /\ SameAnnot(ret'.value, call.annot_dict))]_vars

\* the round trip for the annotation dicts in which no label has an empty list
C12_RoundTripNonEmpty ==
    [][(/\ call.op = "load_labels_from_annot_dict"
        /\ call'.op = "labels_to_annot_dict"
        /\ \A f \in DOMAIN call.annot_dict : \A k \in 1..Len(call.annot_dict[f]) :
              call.annot_dict[f][k].boxes # << >>) =>
          (ret'.kind = "return" /\ SameAnnot(ret'.value, call.annot_dict))]_vars

-----
(* BoundingBox.matches applied to a subject, candidates and a threshold *)

InitMatches ==
    /\ self_bb \in MatchBoxes
    /\ obb_iterable \in SeqsUpTo(MatchBoxes, MaxCandidates)
    /\ threshold \in MatchThresholds
    /\ list_to_ret = NoneV
    /\ DetectionIdle
    /\ GeneratorIdle

call_matches ==
    /\ list_to_ret = NoneV
    /\ list_to_ret' = matches(self_bb, obb_iterable, threshold)
    /\ UNCHANGED << self_bb, obb_iterable, threshold >>
    /\ UNCHANGED detVars
    /\ UNCHANGED genVars

NextMatches == call_matches

SpecMatches == InitMatches /\ [][NextMatches]_vars

\* candidate i has the subject's label and overlaps it
IsRelated(i) ==
    self_bb.label = obb_iterable[i].label /\ Overlaps(self_bb, obb_iterable[i])

\* the related candidates up to position n, in order
RECURSIVE RelatedUpTo(_)
RelatedUpTo(n) ==
    IF n = 0 THEN << >>
    ELSE IF IsRelated(n) THEN Append(RelatedUpTo(n - 1), n) ELSE RelatedUpTo(n - 1)

\* the first related candidate whose union with the subject is zero, or 0
FirstUndefined ==
    LET U == {i \in 1..Len(obb_iterable) :
                 IsRelated(i) /\ UnionArea(self_bb, obb_iterable[i]) = 0}
    IN  IF U = {} THEN 0 ELSE CHOOSE i \in U : \A j \in U : i <= j

-----------------------------------------------------------------------------
(* class BoundingBoxArray : the occupancy grid and the disjoint-box generator *)

MinGrid == 2
MaxGrid == 3
MaxBoxes == 2
MaxTries == 1

\* rectangles to build the array from (frame 1, label "A")
GridLists ==
    { << >>,
      << Box(1, "A", 1, 0, 2, 1) >>,
      << Box(1, "A", 0, 0, 3, 3) >>,
      << Box(1, "A", 0, 0, 2, 2), Box(1, "A", 2, 1, 4, 4) >> }

\* (min_width, min_height)
MinSizes == { << 1, 1 >>, << 2, 1 >> }

\* max_width / max_height : None or a size
GridSizes == {NoneV} \cup {Num(n) : n \in MinGrid..MaxGrid}

\* max([f(bb) for bb in list]) of a list that is not empty
MaxBrx(bbs) == CHOOSE m \in {bbs[k].brx : k \in 1..Len(bbs)} : \A k \in 1..Len(bbs) : bbs[k].brx <= m
MaxBry(bbs) == CHOOSE m \in {bbs[k].bry : k \in 1..Len(bbs)} : \A k \in 1..Len(bbs) : bbs[k].bry <= m

\* array[y0:y1, x0:x1] = v
Fill(arr, y0, y1, x0, x1, v) ==
    [c \in DOMAIN arr |->
        IF c[1] >= y0 /\ c[1] < y1 /\ c[2] >= x0 /\ c[2] < x1 THEN v ELSE arr[c]]

\* BoundingBoxArray._add_bounding_box_to_array, for an array that is not normalized
_add_bounding_box_to_array(arr, bb) ==
    Fill(arr, bb.top_left.items[2].n, bb.bottom_right.items[2].n,
              bb.top_left.items[1].n, bb.bottom_right.items[1].n, 1)

RECURSIVE addAllToArray(_, _, _)
addAllToArray(arr, bbs, k) ==
    IF k > Len(bbs) THEN arr
    ELSE addAllToArray(_add_bounding_box_to_array(arr, bbs[k]), bbs, k + 1)

\* BoundingBoxArray.__init__ : width, height, normalized and the array
BoundingBoxArray(bounding_box_list, max_width, max_height) ==
    LET w == IF max_width = NoneV THEN MaxBrx(bounding_box_list) ELSE max_width.n
        h == IF max_height = NoneV THEN MaxBry(bounding_box_list) ELSE max_height.n
        norm == w <= 1 \/ h <= 1
        w2 == IF norm THEN w * 1000 ELSE w
        h2 == IF norm THEN h * 1000 ELSE h
    IN  [list |-> bounding_box_list, width |-> w2, height |-> h2, normalized |-> norm,
         array |-> addAllToArray([c \in (0..(h2 - 1)) \X (0..(w2 - 1)) |-> 0],
                                 bounding_box_list, 1)]

\* 1 in self.array[y0:y1, x]
ColumnHasOne(arr, y0, y1, x) == \E y \in y0..(y1 - 1) : arr[y, x] = 1

\* 1 in self.array[y, x0:x1]
RowHasOne(arr, y, x0, x1) == \E x \in x0..(x1 - 1) : arr[y, x] = 1

\* the values of random.randint(0,1000) as far as "> decay" tells them apart
Draws(d) == {0, d, d + 1, 1000} \cap (0..1000)

\* BoundingBoxArray(list, max_width, max_height).add_disjoint_boxes(num_boxes,
\* min_width=.., min_height=.., tries=..) is called.  Arrays that are not
\* normalized (width > 1 and height > 1) are modelled.
InitGenerator ==
    /\ \E bbs \in GridLists, mw \in GridSizes, mh \in GridSizes :
          /\ (mw = NoneV \/ mh = NoneV) => bbs # << >>
          /\ LET a == BoundingBoxArray(bbs, mw, mh)
             IN  /\ ~a.normalized
                 /\ bba_list = a.list
                 /\ width = a.width
                 /\ height = a.height
                 /\ normalized = a.normalized
                 /\ array = a.array
    /\ num_boxes \in 0..MaxBoxes
    /\ min_size \in MinSizes
    /\ max_tries \in 0..MaxTries
    /\ box_index = 0 /\ added = << >> /\ res = NoneV
    /\ pc = "for"
    /\ tries = 0 /\ decay = 0 /\ draw = 0
    /\ tlx = 0 /\ tly = 0 /\ cur_x = 0 /\ cur_y = 0
    /\ cur_width = 0 /\ cur_height = 0
    /\ DetectionIdle
    /\ MatchIdle

\* for i in range(num_boxes): call _add_disjoint_bounding_box, or return added
for_box ==
    /\ pc = "for"
    /\ IF box_index < num_boxes
       THEN /\ pc' = "entry"
            /\ tries' = max_tries
            /\ decay' = 0
       ELSE /\ pc' = "done"
            /\ UNCHANGED << tries, decay >>
    /\ UNCHANGED << array, box_index, added, res, draw, tlx, tly, cur_x, cur_y, cur_width, cur_height >>
    /\ UNCHANGED << detVars, matchVars, bba_list, width, height, normalized, callVars >>

\* lines 491-494: return False when no tries are left, else draw a start cell
entry ==
    /\ pc = "entry"
    /\ IF tries = 0
       THEN /\ res' = FalseV
            /\ pc' = "ret"
            /\ UNCHANGED << tlx, tly >>
       ELSE /\ tlx' \in 0..(width - 1)
            /\ tly' \in 0..(height - 1)
            /\ pc' = "pick"
            /\ UNCHANGED res
    /\ UNCHANGED << array, box_index, added, tries, decay, draw, cur_x, cur_y, cur_width, cur_height >>
    /\ UNCHANGED << detVars, matchVars, bba_list, width, height, normalized, callVars >>

\* lines 497-499: the start cell is occupied, draw another one
redraw ==
    /\ pc = "pick"
    /\ array[tly, tlx] # 0
    /\ tlx' \in 0..(width - 1)
    /\ tly' \in 0..(height - 1)
    /\ UNCHANGED << array, box_index, added, res, pc, tries, decay, draw, cur_x, cur_y, cur_width, cur_height >>
    /\ UNCHANGED << detVars, matchVars, bba_list, width, height, normalized, callVars >>

\* lines 501-507: the start cell is empty, growth starts from it
start_growth ==
    /\ pc = "pick"
    /\ array[tly, tlx] = 0
    /\ cur_width' = 0
    /\ cur_height' = 0
    /\ cur_x' = tlx
    /\ cur_y' = tly
    /\ pc' = "grow"
    /\ UNCHANGED << array, box_index, added, res, tries, decay, draw, tlx, tly >>
    /\ UNCHANGED << detVars, matchVars, bba_list, width, height, normalized, callVars >>

\* return self._add_disjoint_bounding_box(..., tries=tries-1)
TryAgain ==
    /\ tries' = tries - 1
    /\ pc' = "entry"
    /\ UNCHANGED << cur_x, cur_y, cur_width, cur_height >>

GrowX ==
    IF ColumnHasOne(array, tly, cur_y, cur_x + 1)
    THEN TryAgain
    ELSE /\ cur_x' = cur_x + 1
         /\ cur_width' = cur_width + 1
         /\ UNCHANGED << cur_y, cur_height, tries, pc >>

GrowY ==
    IF RowHasOne(array, cur_y + 1, tlx, cur_x)
    THEN TryAgain
    ELSE /\ cur_y' = cur_y + 1
         /\ cur_height' = cur_height + 1
         /\ UNCHANGED << cur_x, cur_width, tries, pc >>

\* lines 509-535 and 559: one test of the outer while and, below the minimum
\* size, one pass through its body
grow ==
    /\ pc = "grow"
    /\ IF ~(cur_x < width - 1 /\ cur_y < height - 1)
       THEN TryAgain
       ELSE IF cur_width < min_size[1] /\ cur_height < min_size[2]
       THEN \E coin \in {0, 1} : IF coin = 0 THEN GrowX ELSE GrowY
       ELSE IF cur_width < min_size[1]
       THEN GrowX
       ELSE IF cur_height < min_size[2]
       THEN GrowY
       ELSE /\ pc' = "decay"
            /\ UNCHANGED << tries, cur_x, cur_y, cur_width, cur_height >>
    /\ UNCHANGED << array, box_index, added, res, decay, draw, tlx, tly >>
    /\ UNCHANGED << detVars, matchVars, bba_list, width, height, normalized, callVars >>

\* self.array[tly:cur_y, tlx:cur_x] = 2 ; return (tlx,tly),(cur_x,cur_y)
Freeze ==
    /\ array' = Fill(array, tly, cur_y, tlx, cur_x, 2)
    /\ res' = Corners(tlx, tly, cur_x, cur_y)
    /\ pc' = "ret"
    /\ UNCHANGED << cur_x, cur_y, cur_width, cur_height, decay >>

\* the inner while goes on while the draw does not exceed decay
decay_step_mut ==
    /\ pc = "decay"
    /\ \E d \in Draws(decay) :
          /\ draw' = d
          /\ IF d <= decay /\ cur_x < width - 1 /\ cur_y < height - 1
             THEN \E coin \in {0, 1} :
                     IF coin = 0
                     THEN IF ColumnHasOne(array, tly, cur_y, cur_x + 1)
                          THEN Freeze
                          ELSE /\ cur_x' = cur_x + 1
                               /\ cur_width' = cur_width + 1
                               /\ decay' = decay + 25
                               /\ UNCHANGED << array, res, pc, cur_y, cur_height >>
                     ELSE IF RowHasOne(array, cur_y + 1, tlx, cur_x)
                          THEN Freeze
                          ELSE /\ cur_y' = cur_y + 1
                               /\ cur_height' = cur_height + 1
                               /\ decay' = decay + 25
                               /\ UNCHANGED << array, res, pc, cur_x, cur_width >>
             ELSE Freeze
    /\ UNCHANGED << box_index, added, tries, tlx, tly >>
    /\ UNCHANGED << detVars, matchVars, bba_list, width, height, normalized, callVars >>

\* lines 536-557: one test of the inner while and one pass through its body
decay_step ==
    /\ pc = "decay"
    /\ \E d \in Draws(decay) :
          /\ draw' = d
          /\ IF d > decay /\ cur_x < width - 1 /\ cur_y < height - 1
             THEN \E coin \in {0, 1} :
                     IF coin = 0
                     THEN IF ColumnHasOne(array, tly, cur_y, cur_x + 1)
                          THEN Freeze
                          ELSE /\ cur_x' = cur_x + 1
                               /\ cur_width' = cur_width + 1
                               /\ decay' = decay + 25
                               /\ UNCHANGED << array, res, pc, cur_y, cur_height >>
                     ELSE IF RowHasOne(array, cur_y + 1, tlx, cur_x)
                          THEN Freeze
                          ELSE /\ cur_y' = cur_y + 1
                               /\ cur_height' = cur_height + 1
                               /\ decay' = decay + 25
                               /\ UNCHANGED << array, res, pc, cur_x, cur_width >>
             ELSE Freeze
    /\ UNCHANGED << box_index, added, tries, tlx, tly >>
    /\ UNCHANGED << detVars, matchVars, bba_list, width, height, normalized, callVars >>

\* what the placement returned is appended even when it is False
collect_mut ==
    /\ pc = "ret"
    /\ added' = Append(added, res)
    /\ box_index' = box_index + 1
    /\ pc' = "for"
    /\ UNCHANGED << array, res, tries, decay, draw, tlx, tly, cur_x, cur_y, cur_width, cur_height >>
    /\ UNCHANGED << detVars, matchVars, bba_list, width, height, normalized, callVars >>

\* lines 567-573: append what the placement returned unless it is False
collect ==
    /\ pc = "ret"
    /\ added' = IF res # FalseV THEN Append(added, res) ELSE added
    /\ box_index' = box_index + 1
    /\ pc' = "for"
    /\ UNCHANGED << array, res, tries, decay, draw, tlx, tly, cur_x, cur_y, cur_width, cur_height >>
    /\ UNCHANGED << detVars, matchVars, bba_list, width, height, normalized, callVars >>

NextGenerator ==
    for_box \/ entry \/ redraw \/ start_growth \/ grow \/ decay_step \/ collect

SpecGenerator == InitGenerator /\ [][NextGenerator]_vars

\* a redraw that hits an empty cell
redraw_empty == redraw /\ array[tly', tlx'] = 0

\* The generator runs on its own thread of control, so it always takes its
\* next step; and random.randint, asked again and again for a cell of a grid
\* that has an empty cell, does not miss the empty cells for ever.
FairGenerator ==
    SpecGenerator /\ WF_vars(NextGenerator) /\ WF_vars(redraw_empty)


-----------------------------------------------------------------------------
(* The claims about the generator *)

\* the grid cells [y, x] a rectangle with these corners covers
CellsOf(r) ==
    {c \in DOMAIN array : /\ c[1] >= r.tl[2] /\ c[1] < r.br[2]
                          /\ c[2] >= r.tl[1] /\ c[2] < r.br[1]}

\* the grid cells covered by an input rectangle
InputCells ==
    {c \in DOMAIN array :
        \E k \in 1..Len(bba_list) :
            /\ c[1] >= bba_list[k].tly /\ c[1] < bba_list[k].bry
            /\ c[2] >= bba_list[k].tlx /\ c[2] < bba_list[k].brx}

NoInputOverlap == \A k \in 1..Len(added) : CellsOf(added[k]) \cap InputCells = {}

NoMutualOverlap ==
    \A k \in 1..Len(added) : \A j \in 1..(k - 1) : CellsOf(added[k]) \cap CellsOf(added[j]) = {}

\* C3: no rectangle of the result covers a grid cell covered by an input
\* rectangle, and none covers a cell covered by a rectangle returned before
\* it in the same call.
C3_ResultDisjoint == NoInputOverlap /\ NoMutualOverlap


GridFull == \A c \in DOMAIN array : array[c] # 0

Done == pc = "done"

\* C4: with no empty cell in the grid, the generator gives up each box and
\* returns an empty result, for every requested count.
C4_FullGridReturnsEmpty == GridFull ~> (Done /\ added = << >>)

\* C5: every call of the generator terminates, whatever the random choices.
C5_Terminates == <>Done

\* When the grid has an empty cell the call does terminate.
TerminatesUnlessFull == GridFull \/ <>Done


C9_State ==
    /\ Len(added) <= box_index
    /\ box_index <= num_boxes
    /\ Done => (Len(added) \in 0..num_boxes /\ (num_boxes = 0 => added = << >>))
    /\ \A k \in 1..Len(added) : added[k] # FalseV
    /\ pc \in {"for", "entry", "pick", "grow", "decay", "ret", "done"}

C9_Step ==
    /\ (pc = "entry" /\ tries = 0) => (res' = FalseV /\ pc' = "ret" /\ added' = added)
    /\ (pc = "ret" /\ res = FalseV) => (added' = added /\ pc' = "for")
    /\ (pc = "ret" /\ res # FalseV) => (added' = Append(added, res) /\ pc' = "for")
    /\ (pc # "ret") => added' = added

\* C9: a placement that has no tries left returns False, which is not
\* appended to the result, and the loop goes on with the next box (no error);
\* the result has between 0 and num_boxes rectangles, none for num_boxes = 0.
C9_ExhaustedBoxOmitted == [](C9_State) /\ [][C9_Step]_vars

\* C9 witness: the call returned fewer rectangles than asked for, but not
\* none, with a retry budget that was not zero
C9_Witness ==
    /\ Done
    /\ max_tries > 0
    /\ Len(added) > 0 /\ Len(added) < num_boxes


\* the step ended the inner while: the rectangle grown so far is marked in
\* the array and returned
Frozen ==
    /\ pc' = "ret"
    /\ res' = Corners(tlx, tly, cur_x, cur_y)
    /\ array' = Fill(array, tly, cur_y, tlx, cur_x, 2)
    /\ decay' = decay
    /\ << cur_x', cur_y', cur_width', cur_height' >> = << cur_x, cur_y, cur_width, cur_height >>

\* the step grew the rectangle by one cell in one direction
Grown ==
    /\ pc' = "decay"
    /\ res' = res /\ array' = array
    /\ \/ << cur_x', cur_width', cur_y', cur_height' >>
             = << cur_x + 1, cur_width + 1, cur_y, cur_height >>
       \/ << cur_x', cur_width', cur_y', cur_height' >>
             = << cur_x, cur_width, cur_y + 1, cur_height + 1 >>

\* the rectangle can grow on: it is off the last column and the last row,
\* and the column to its right and the row below it hold no input cell
FreeToGrow ==
    /\ cur_x < width - 1 /\ cur_y < height - 1
    /\ ~ColumnHasOne(array, tly, cur_y, cur_x + 1)
    /\ ~RowHasOne(array, cur_y + 1, tlx, cur_x)

\* a rectangle is returned, and is in the result, only with both its
\* dimensions at their minimum or above
RecordedAboveMinimum ==
    /\ (pc = "ret" /\ res # FalseV) =>
          /\ res = Corners(tlx, tly, cur_x, cur_y)
          /\ cur_x - tlx = cur_width /\ cur_y - tly = cur_height
          /\ cur_width >= min_size[1] /\ cur_height >= min_size[2]
    /\ \A k \in 1..Len(added) :
          /\ added[k].br[1] - added[k].tl[1] >= min_size[1]
          /\ added[k].br[2] - added[k].tl[2] >= min_size[2]

\* C16 as stated: above the minimum size every step draws a value in
\* 0..1000; growth stops, the rectangle being frozen and recorded, once the
\* draw exceeds decay; decay goes up by 25 with every growth step; and a
\* rectangle is recorded only with both dimensions at the minimum or above.
C16_StopsWhenDrawExceedsDecay ==
    /\ [][pc = "decay" =>
             /\ draw' \in 0..1000
             /\ draw' > decay => Frozen
             /\ Frozen \/ (Grown /\ decay' = decay + 25)]_vars
    /\ []RecordedAboveMinimum

\* C16 amended: above the minimum size every step draws a value in 0..1000;
\* growth goes on while the draw exceeds decay (and the rectangle is free to
\* grow) and stops, the rectangle being frozen and recorded, once the draw
\* is at most decay; decay goes up by 25 with every growth step; and a
\* rectangle is recorded only with both dimensions at the minimum or above.
C16_StopsWhenDrawAtMostDecay ==
    /\ [][pc = "decay" =>
             /\ draw' \in 0..1000
             /\ draw' <= decay => Frozen
             /\ (draw' > decay /\ FreeToGrow) => Grown
             /\ Frozen \/ (Grown /\ decay' = decay + 25 /\ draw' > decay)]_vars
    /\ []RecordedAboveMinimum

\* C16 witness: a rectangle at its minimum size, free to grow on, was
\* frozen and returned because the draw did not exceed decay
C16_Witness ==
    /\ pc = "ret" /\ res # FalseV
    /\ draw <= decay
    /\ cur_width = min_size[1] /\ cur_height = min_size[2]
    /\ FreeToGrow

====
